---- MODULE Spec2Model ----
(***************************************************************************)
(* ThrillerGraph (thriller-core/src/dataflow/graph.rs): the dataflow graph *)
(* of nodes and edges, connect(), the sweeping topological sort, emit(),   *)
(* reduce_block_outputs() and try_split().                                 *)
(*                                                                         *)
(* A node is identified by its id; an edge by its position in the graph's  *)
(* edge vector.  A panic (a RefCell borrow failure, unwrap() on None, an   *)
(* arithmetic overflow in a checked build, todo!()) ends the run: it is    *)
(* recorded in `failed` and no operation is taken afterwards.              *)
(***************************************************************************)
EXTENDS Integers, Sequences, FiniteSets, TLC

\* Bounds of the model.
MaxNodes == 3
MaxEdges == 3
MaxConnects == 2
MaxGroups == 2
MaxOutputs == 2

Nodes == 1..MaxNodes
Kinds == {"Op", "Block", "Other"}

VARIABLES
    nodes,         \* ThrillerGraph.nodes: sequence of node ids
    edges,         \* ThrillerGraph.edges: sequence of <<src, dst>>
    node,          \* the ThrillerNode behind every id: payload, adjacency, in-degree
    connects,      \* number of connect() calls made so far
    op,            \* the public operation in progress ("none" when idle)
    pc,            \* position inside the operation in progress
    in_degrees,    \* topo_sort's working mapping id -> in-degree
    node_ids,      \* ids of the current pass's snapshot that are still to be visited
    sorted_nodes,  \* topo_sort's result so far
    passes,        \* number of snapshots (passes) taken by the running topo_sort
    snapshot,      \* all the ids collected for the current pass
    dropped,       \* ids whose working in-degree fell to zero during the current pass
    result,        \* what the last call returned (NoResult while it has not)
    order,         \* the order the last completed topo_sort returned to its caller
    fails,         \* the nodes whose own emission fails, as met by the last emit
    outs,          \* what each block's reduction yields, as met by the last reduce
    invoked,       \* the emit()/reduce() calls the last operation made on nodes, in order
    wrapped,       \* an unchecked build wrapped a working in-degree below zero
    failed         \* "none", or the panic that ended the run

vars == <<nodes, edges, node, connects, op, pc, in_degrees, node_ids,
          sorted_nodes, passes, snapshot, dropped, result, order, fails, outs, invoked, wrapped,
          failed>>

graph == <<nodes, edges, node>>
locals == <<in_degrees, node_ids, sorted_nodes, passes, snapshot, dropped>>
log == <<order, fails, outs, invoked>>

----------------------------------------------------------------------------
\* Helpers on sequences and sets.

Range(s) == {s[i] : i \in 1..Len(s)}

RECURSIVE Concat(_)
Concat(ss) == IF ss = <<>> THEN <<>> ELSE Head(ss) \o Concat(Tail(ss))

RECURSIVE SumOver(_, _)
SumOver(f, S) ==
    IF S = {} THEN 0
    ELSE LET x == CHOOSE y \in S : TRUE IN f[x] + SumOver(f, S \ {x})

Count(s, x) == Cardinality({i \in 1..Len(s) : s[i] = x})

\* Position of x in the sequence s (0 when absent).
Pos(s, x) == IF x \in Range(s) THEN CHOOSE i \in 1..Len(s) : s[i] = x ELSE 0

EmptyMap == [x \in {} |-> 0]

----------------------------------------------------------------------------
\* ThrillerNode: the data model of a node and its mutators.  The adjacency
\* fields are vectors and the mutators push onto them: nothing is deduplicated.

NewNode(kind) ==
    [inner |-> kind, out_edges |-> <<>>, in_edges |-> <<>>,
     nexts |-> <<>>, prevs |-> <<>>, in_degrees |-> 0]

add_out_edge(nd, e) == [nd EXCEPT !.out_edges = Append(@, e)]
add_in_edge(nd, e) == [nd EXCEPT !.in_edges = Append(@, e)]
add_next(nd, n) == [nd EXCEPT !.nexts = Append(@, n)]
add_prev(nd, n) == [nd EXCEPT !.prevs = Append(@, n)]
inc_in_degrees(nd) == [nd EXCEPT !.in_degrees = @ + 1]

get_nexts(nd) == nd.nexts
get_in_degrees(nd) == nd.in_degrees
get_inner(nd) == nd.inner

get_src(e) == e[1]
get_dst(e) == e[2]

----------------------------------------------------------------------------
\* ThrillerGraph::connect

\* Mutants of ConnectEdge: the in-degree increment, or the successor link, is
\* forgotten.
ConnectEdgeNoInc(nd, e, src, dst) ==
    [nd EXCEPT ![src] = add_next(add_out_edge(@, e), dst),
               ![dst] = add_prev(add_in_edge(@, e), src)]

ConnectEdgeNoNext(nd, e, src, dst) ==
    [nd EXCEPT ![src] = add_out_edge(@, e),
               ![dst] = inc_in_degrees(add_prev(add_in_edge(@, e), src))]

\* Mutant of ConnectEdge: the predecessor link is given the destination.
ConnectEdgeWrongPrev(nd, e, src, dst) ==
    [nd EXCEPT ![src] = add_next(add_out_edge(@, e), dst),
               ![dst] = inc_in_degrees(add_prev(add_in_edge(@, e), dst))]

\* One iteration of connect's loop for the edge at position e, src /= dst.
ConnectEdge(nd, e, src, dst) ==
    [nd EXCEPT ![src] = add_next(add_out_edge(@, e), dst),
               ![dst] = inc_in_degrees(add_prev(add_in_edge(@, e), src))]

\* Mutant of ConnectFrom: an edge with an endpoint outside the node collection
\* is passed over.
RECURSIVE ConnectFromValidated(_, _, _)
ConnectFromValidated(nd, es, i) ==
    IF i > Len(es) THEN [node |-> nd, failed |-> "none"]
    ELSE LET src == get_src(es[i])
             dst == get_dst(es[i])
         IN  IF src = dst
             THEN [node |-> nd, failed |-> "BorrowMutError"]
             ELSE IF src \notin Range(nodes) \/ dst \notin Range(nodes)
             THEN ConnectFromValidated(nd, es, i + 1)
             ELSE ConnectFromValidated(ConnectEdge(nd, i, src, dst), es, i + 1)

\* Mutant of ConnectFrom: the destination is borrowed only after the source's
\* side of the edge has been recorded.
RECURSIVE ConnectFromLateBorrow(_, _, _)
ConnectFromLateBorrow(nd, es, i) ==
    IF i > Len(es) THEN [node |-> nd, failed |-> "none"]
    ELSE LET src == get_src(es[i])
             dst == get_dst(es[i])
         IN  IF src = dst
             THEN [node |-> [nd EXCEPT ![src] = add_next(add_out_edge(@, i), dst)],
                   failed |-> "BorrowMutError"]
             ELSE ConnectFromLateBorrow(ConnectEdge(nd, i, src, dst), es, i + 1)

\* connect's loop from the edge at position i on.  Both endpoints are borrowed
\* mutably before anything is changed: with src = dst the second borrow_mut()
\* panics.
RECURSIVE ConnectFrom(_, _, _)
ConnectFrom(nd, es, i) ==
    IF i > Len(es) THEN [node |-> nd, failed |-> "none"]
    ELSE LET src == get_src(es[i])
             dst == get_dst(es[i])
         IN  IF src = dst
             THEN [node |-> nd, failed |-> "BorrowMutError"]
             ELSE ConnectFrom(ConnectEdge(nd, i, src, dst), es, i + 1)

connect ==
    /\ failed = "none" /\ op = "none"
    /\ connects < MaxConnects
    /\ LET r == ConnectFrom(node, edges, 1)
       IN  /\ node' = r.node
           /\ failed' = r.failed
    /\ connects' = connects + 1
    /\ UNCHANGED <<nodes, edges, op, pc, locals, result, log, wrapped>>

----------------------------------------------------------------------------
\* ThrillerGraph::add_nodes, add_edges

NoResult == [op |-> "none", tag |-> "none", value |-> <<>>]

add_nodes(ns) ==
    /\ failed = "none" /\ op = "none"
    /\ nodes' = nodes \o ns
    /\ UNCHANGED <<edges, node, connects, op, pc, locals, result, log,
                   wrapped, failed>>

add_edges(es) ==
    /\ failed = "none" /\ op = "none"
    /\ edges' = edges \o es
    /\ UNCHANGED <<nodes, node, connects, op, pc, locals, result, log,
                   wrapped, failed>>

----------------------------------------------------------------------------
\* ThrillerGraph::topo_sort

\* Mutant of TopoInit: the mapping starts from the out-degrees.
TopoInitOutDegree(ns, nd) == [id \in Range(ns) |-> Len(nd[id].out_edges)]

\* The working mapping built from the node collection.
TopoInit(ns, nd) == [id \in Range(ns) |-> get_in_degrees(nd[id])]

\* The head of the while loop: stop on an empty mapping, else snapshot its keys.
WhileHead(indeg) ==
    IF DOMAIN indeg = {}
    THEN [pc |-> "sorted", node_ids |-> {}]
    ELSE [pc |-> "for", node_ids |-> DOMAIN indeg]

\* The value an unchecked build leaves after 0 - 1 on a usize: the largest
\* value of the type (the width is cut to the 32 bits of TLC's integers; only
\* "far from zero" matters here).
UsizeMax == 2^31 - 1

\* Mutants of DecNext: the working in-degree is cleared instead of decremented;
\* the node's own in-degree counter is decremented along with the working one.
DecNextZero(st, self, next_id, checked) ==
    IF next_id = self THEN [st EXCEPT !.failed = "BorrowError"]
    ELSE IF next_id \notin DOMAIN st.map THEN [st EXCEPT !.failed = "unwrap"]
    ELSE [st EXCEPT !.map[next_id] = 0]

DecNextPersistent(st, self, next_id, checked) ==
    IF next_id = self THEN [st EXCEPT !.failed = "BorrowError"]
    ELSE IF next_id \notin DOMAIN st.map THEN [st EXCEPT !.failed = "unwrap"]
    ELSE IF st.map[next_id] = 0
         THEN IF checked THEN [st EXCEPT !.failed = "overflow"]
              ELSE [st EXCEPT !.map[next_id] = UsizeMax, !.wrapped = TRUE]
    ELSE [st EXCEPT !.map[next_id] = @ - 1,
                    !.node[next_id].in_degrees = @ - 1]

\* Mutant of DecNext: a successor missing from the mapping is passed over.
DecNextSkipMissing(st, self, next_id, checked) ==
    IF next_id = self THEN [st EXCEPT !.failed = "BorrowError"]
    ELSE IF next_id \notin DOMAIN st.map THEN st
    ELSE IF st.map[next_id] = 0
         THEN IF checked THEN [st EXCEPT !.failed = "overflow"]
              ELSE [st EXCEPT !.map[next_id] = UsizeMax, !.wrapped = TRUE]
    ELSE [st EXCEPT !.map[next_id] = @ - 1]

\* Mutant of DecNext: a successor whose working in-degree reaches zero is
\* taken out of the mapping at once.
DecNextRemoveAtZero(st, self, next_id, checked) ==
    IF next_id = self THEN [st EXCEPT !.failed = "BorrowError"]
    ELSE IF next_id \notin DOMAIN st.map THEN [st EXCEPT !.failed = "unwrap"]
    ELSE IF st.map[next_id] = 0
         THEN IF checked THEN [st EXCEPT !.failed = "overflow"]
              ELSE [st EXCEPT !.map[next_id] = UsizeMax, !.wrapped = TRUE]
    ELSE IF st.map[next_id] = 1
         THEN [st EXCEPT !.map = [n \in DOMAIN @ \ {next_id} |-> @[n]]]
    ELSE [st EXCEPT !.map[next_id] = @ - 1]

\* One decrement of a successor's working in-degree.  The harvested node is
\* mutably borrowed for the whole loop, so borrowing it again panics; a
\* successor missing from the mapping makes unwrap() panic; 0 - 1 panics in a
\* build with overflow checks and wraps in one without.
DecNext(st, self, next_id, checked) ==
    IF next_id = self THEN [st EXCEPT !.failed = "BorrowError"]
    ELSE IF next_id \notin DOMAIN st.map THEN [st EXCEPT !.failed = "unwrap"]
    ELSE IF st.map[next_id] = 0
         THEN IF checked THEN [st EXCEPT !.failed = "overflow"]
              ELSE [st EXCEPT !.map[next_id] = UsizeMax, !.wrapped = TRUE]
    ELSE [st EXCEPT !.map[next_id] = @ - 1]

\* Mutant of DecNexts: a successor listed twice is decremented once.
RECURSIVE DecNextsDedup(_, _, _, _, _)
DecNextsDedup(st, nx, self, checked, i) ==
    IF i > Len(nx) \/ st.failed /= "none" THEN st
    ELSE IF \E j \in 1..(i - 1) : nx[j] = nx[i]
    THEN DecNextsDedup(st, nx, self, checked, i + 1)
    ELSE DecNextsDedup(DecNext(st, self, nx[i], checked), nx, self, checked, i + 1)

\* The loop over the harvested node's successors, from position i on.
RECURSIVE DecNexts(_, _, _, _, _)
DecNexts(st, nx, self, checked, i) ==
    IF i > Len(nx) \/ st.failed /= "none" THEN st
    ELSE DecNexts(DecNext(st, self, nx[i], checked), nx, self, checked, i + 1)

Remove(map, id) == [x \in DOMAIN map \ {id} |-> map[x]]

\* Mutant of VisitNode: a node is harvested with one in-edge still pending.
VisitNodeEager(st, node_id, checked) ==
    IF node_id \notin DOMAIN st.map THEN [st EXCEPT !.failed = "index"]
    ELSE IF st.map[node_id] > 1 THEN st
    ELSE LET pushed == [st EXCEPT !.sorted = Append(@, node_id)]
             d == DecNexts(pushed, get_nexts(st.node[node_id]), node_id,
                           checked, 1)
         IN  IF d.failed /= "none" THEN d
             ELSE [d EXCEPT !.map = Remove(@, node_id)]

\* Mutant of VisitNode: the in-degree is the one the id had when the pass
\* began, so an id that fell to zero during the pass is left for the next one.
VisitNodeSnapshot(st, node_id, checked) ==
    IF node_id \notin DOMAIN st.map THEN [st EXCEPT !.failed = "index"]
    ELSE IF st.map[node_id] /= 0 \/ node_id \in st.dropped THEN st
    ELSE LET pushed == [st EXCEPT !.sorted = Append(@, node_id)]
             d == DecNexts(pushed, get_nexts(st.node[node_id]), node_id,
                           checked, 1)
         IN  IF d.failed /= "none" THEN d
             ELSE [d EXCEPT !.map = Remove(@, node_id)]

\* Mutant of VisitNode: a harvested id is left in the mapping.
VisitNodeNoRemove(st, node_id, checked) ==
    IF node_id \notin DOMAIN st.map THEN [st EXCEPT !.failed = "index"]
    ELSE IF st.map[node_id] /= 0 THEN st
    ELSE LET pushed == [st EXCEPT !.sorted = Append(@, node_id)]
         IN  DecNexts(pushed, get_nexts(st.node[node_id]), node_id, checked, 1)

\* The body of the for loop for one id of the snapshot.
VisitNode(st, node_id, checked) ==
    IF node_id \notin DOMAIN st.map THEN [st EXCEPT !.failed = "index"]
    ELSE IF st.map[node_id] /= 0 THEN st
    ELSE LET pushed == [st EXCEPT !.sorted = Append(@, node_id)]
             d == DecNexts(pushed, get_nexts(st.node[node_id]), node_id,
                           checked, 1)
         IN  IF d.failed /= "none" THEN d
             ELSE [d EXCEPT !.map = Remove(@, node_id)]

\* A new call starts with an empty record of the calls made on payloads.
ClearLog ==
    /\ order' = <<>>
    /\ fails' = {}
    /\ outs' = EmptyMap
    /\ invoked' = <<>>

\* A call of topo_sort, on its own or as the first statement of emit or
\* reduce_block_outputs: the locals are set up and the while loop is entered.
Call(o) ==
    /\ failed = "none" /\ op = "none"
    /\ op' = o
    /\ LET indeg == TopoInit(nodes, node)
           h == WhileHead(indeg)
       IN  /\ in_degrees' = indeg
           /\ pc' = h.pc
           /\ node_ids' = h.node_ids
           /\ snapshot' = h.node_ids
           /\ passes' = IF h.pc = "for" THEN 1 ELSE 0
    /\ dropped' = {}
    /\ sorted_nodes' = <<>>
    /\ result' = NoResult
    /\ ClearLog
    /\ UNCHANGED <<graph, connects, wrapped, failed>>

PassCap == MaxNodes + 1

\* The ids whose working in-degree was positive before and is zero after.
Zeroed(before, after) ==
    {n \in DOMAIN before \cap DOMAIN after : before[n] > 0 /\ after[n] = 0}

\* One iteration of the for loop.  The snapshot's order is the HashMap's, which
\* is arbitrary: any id still to be visited may be the next one.  After the
\* snapshot's last id the while condition is evaluated again.
Visit(node_id, checked) ==
    /\ failed = "none" /\ pc = "for"
    /\ node_id \in node_ids
    /\ LET st == [map |-> in_degrees, sorted |-> sorted_nodes, node |-> node,
                  failed |-> "none", wrapped |-> wrapped, dropped |-> dropped]
           v == VisitNode(st, node_id, checked)
           rest == node_ids \ {node_id}
           h == WhileHead(v.map)
       IN  /\ in_degrees' = v.map
           /\ sorted_nodes' = v.sorted
           /\ node' = v.node
           /\ failed' = v.failed
           /\ wrapped' = v.wrapped
           /\ IF v.failed /= "none"
              THEN /\ dropped' = dropped \cup Zeroed(in_degrees, v.map)
                   /\ UNCHANGED <<pc, node_ids, snapshot, passes>>
              ELSE IF rest /= {}
              THEN /\ node_ids' = rest
                   /\ dropped' = dropped \cup Zeroed(in_degrees, v.map)
                   /\ UNCHANGED <<pc, snapshot, passes>>
              ELSE /\ pc' = h.pc
                   /\ node_ids' = h.node_ids
                   /\ snapshot' = h.node_ids
                   /\ dropped' = {}
                   /\ passes' = IF h.pc = "for" /\ passes < PassCap
                                THEN passes + 1 ELSE passes
    /\ UNCHANGED <<nodes, edges, connects, op, result, log>>

ClearLocals ==
    /\ in_degrees' = EmptyMap
    /\ node_ids' = {}
    /\ sorted_nodes' = <<>>
    /\ passes' = 0
    /\ snapshot' = {}
    /\ dropped' = {}

\* topo_sort returns sorted_nodes.
topo_sort_return ==
    /\ failed = "none" /\ op = "topo_sort" /\ pc = "sorted"
    /\ result' = [op |-> "topo_sort", tag |-> "Vec", value |-> sorted_nodes]
    /\ op' = "none" /\ pc' = "idle"
    /\ order' = sorted_nodes
    /\ ClearLocals
    /\ UNCHANGED <<graph, connects, fails, outs, invoked, wrapped, failed>>

----------------------------------------------------------------------------
\* Task::emit for ThrillerGraph

\* The fragment a node's own emission yields, and the error it fails with.
Fragment(n) == <<n>>
EmitError(n) == <<0 - n>>

\* A call made on a node's payload, with what it returned.
Invocation(n, tag, value) == [node |-> n, tag |-> tag, value |-> value]

\* Mutants of EmitFrom: a fragment is put in front of the code so far; a
\* failure is remembered but the later nodes are still invoked.
RECURSIVE EmitFromPrepend(_, _, _, _, _, _)
EmitFromPrepend(sorted, nd, failing, i, code, called) ==
    IF i > Len(sorted) THEN [tag |-> "Ok", value |-> code, invoked |-> called]
    ELSE LET n == sorted[i] IN
         IF get_inner(nd[n]) \in {"Op", "Block"}
         THEN IF n \in failing
              THEN [tag |-> "Err", value |-> EmitError(n),
                    invoked |-> Append(called, Invocation(n, "Err", EmitError(n)))]
              ELSE EmitFromPrepend(sorted, nd, failing, i + 1, Fragment(n) \o code,
                                   Append(called, Invocation(n, "Ok", Fragment(n))))
         ELSE EmitFromPrepend(sorted, nd, failing, i + 1, code, called)

RECURSIVE EmitFromKeepGoing(_, _, _, _, _, _)
EmitFromKeepGoing(sorted, nd, failing, i, code, called) ==
    IF i > Len(sorted) THEN [tag |-> "Ok", value |-> code, invoked |-> called]
    ELSE LET n == sorted[i] IN
         IF get_inner(nd[n]) \in {"Op", "Block"}
         THEN IF n \in failing
              THEN LET rest == EmitFromKeepGoing(sorted, nd, failing, i + 1, code,
                                  Append(called, Invocation(n, "Err", EmitError(n))))
                   IN  [tag |-> "Err", value |-> EmitError(n),
                        invoked |-> rest.invoked]
              ELSE EmitFromKeepGoing(sorted, nd, failing, i + 1, code \o Fragment(n),
                                     Append(called, Invocation(n, "Ok", Fragment(n))))
         ELSE EmitFromKeepGoing(sorted, nd, failing, i + 1, code, called)

\* emit's loop from position i of the order on; failing is the set of nodes
\* whose own emission fails.
RECURSIVE EmitFrom(_, _, _, _, _, _)
EmitFrom(sorted, nd, failing, i, code, called) ==
    IF i > Len(sorted) THEN [tag |-> "Ok", value |-> code, invoked |-> called]
    ELSE LET n == sorted[i] IN
         IF get_inner(nd[n]) \in {"Op", "Block"}
         THEN IF n \in failing
              THEN [tag |-> "Err", value |-> EmitError(n),
                    invoked |-> Append(called, Invocation(n, "Err", EmitError(n)))]
              ELSE EmitFrom(sorted, nd, failing, i + 1, code \o Fragment(n),
                            Append(called, Invocation(n, "Ok", Fragment(n))))
         ELSE EmitFrom(sorted, nd, failing, i + 1, code, called)

emit_loop(failing) ==
    /\ failed = "none" /\ op = "emit" /\ pc = "sorted"
    /\ LET r == EmitFrom(sorted_nodes, node, failing, 1, <<>>, <<>>)
       IN  /\ result' = [op |-> "emit", tag |-> r.tag, value |-> r.value]
           /\ invoked' = r.invoked
    /\ order' = sorted_nodes
    /\ fails' = failing
    /\ op' = "none" /\ pc' = "idle"
    /\ ClearLocals
    /\ UNCHANGED <<graph, connects, outs, wrapped, failed>>

----------------------------------------------------------------------------
\* ThrillerGraph::reduce_block_outputs

None == [some |-> FALSE, list |-> <<>>]
Some(l) == [some |-> TRUE, list |-> l]

\* Mutant of CopyFrom: every output is put in front of the new vector.
RECURSIVE CopyFromPrepend(_, _, _)
CopyFromPrepend(outputs, i, reduced_outputs) ==
    IF i > Len(outputs) THEN reduced_outputs
    ELSE CopyFromPrepend(outputs, i + 1, <<outputs[i]>> \o reduced_outputs)

\* The copy loop: every output is pushed, in order, onto a new vector.
RECURSIVE CopyFrom(_, _, _)
CopyFrom(outputs, i, reduced_outputs) ==
    IF i > Len(outputs) THEN reduced_outputs
    ELSE CopyFrom(outputs, i + 1, Append(reduced_outputs, outputs[i]))

CopyList(outputs) == CopyFrom(outputs, 1, <<>>)

\* Mutant of ReduceFrom: a block whose reduction yields none is passed over
\* and the loop goes on to the next block.
RECURSIVE ReduceFromSkipNone(_, _, _, _)
ReduceFromSkipNone(sorted, nd, yields, i) ==
    IF i > Len(sorted) THEN [ret |-> None, invoked |-> <<>>]
    ELSE LET n == sorted[i] IN
         IF get_inner(nd[n]) = "Block"
         THEN LET outputs == yields[n]
                  call == Invocation(n, IF outputs.some THEN "Some" ELSE "None",
                                     outputs.list)
              IN  IF outputs.some
                  THEN [ret |-> Some(CopyList(outputs.list)), invoked |-> <<call>>]
                  ELSE LET r == ReduceFromSkipNone(sorted, nd, yields, i + 1)
                       IN  [ret |-> r.ret, invoked |-> <<call>> \o r.invoked]
         ELSE ReduceFromSkipNone(sorted, nd, yields, i + 1)

\* reduce_block_outputs' loop from position i of the order on; yields[n] is
\* what the reduction of block n yields.
RECURSIVE ReduceFrom(_, _, _, _)
ReduceFrom(sorted, nd, yields, i) ==
    IF i > Len(sorted) THEN [ret |-> None, invoked |-> <<>>]
    ELSE LET n == sorted[i] IN
         IF get_inner(nd[n]) = "Block"
         THEN LET outputs == yields[n]
                  call == Invocation(n, IF outputs.some THEN "Some" ELSE "None",
                                     outputs.list)
              IN  IF outputs.some
                  THEN [ret |-> Some(CopyList(outputs.list)), invoked |-> <<call>>]
                  ELSE [ret |-> None, invoked |-> <<call>>]
         ELSE ReduceFrom(sorted, nd, yields, i + 1)

reduce_loop(yields) ==
    /\ failed = "none" /\ op = "reduce_block_outputs" /\ pc = "sorted"
    /\ LET r == ReduceFrom(sorted_nodes, node, yields, 1)
       IN  /\ result' = [op |-> "reduce_block_outputs",
                         tag |-> IF r.ret.some THEN "Some" ELSE "None",
                         value |-> r.ret.list]
           /\ invoked' = r.invoked
    /\ order' = sorted_nodes
    /\ outs' = yields
    /\ op' = "none" /\ pc' = "idle"
    /\ ClearLocals
    /\ UNCHANGED <<graph, connects, fails, wrapped, failed>>

----------------------------------------------------------------------------
\* ThrillerGraph::try_split

\* Mutant of try_split: the guard tests for no loop group.
try_split_no_group(ngroups) ==
    /\ failed = "none" /\ op = "none"
    /\ IF ngroups = 0
       THEN /\ result' = [op |-> "try_split", tag |-> "None", value |-> <<>>]
            /\ UNCHANGED failed
       ELSE /\ failed' = "todo"
            /\ result' = NoResult
    /\ ClearLog
    /\ UNCHANGED <<graph, connects, op, pc, locals, wrapped>>

\* ngroups is groups.len().
try_split(ngroups) ==
    /\ failed = "none" /\ op = "none"
    /\ IF ngroups = 1
       THEN /\ result' = [op |-> "try_split", tag |-> "None", value |-> <<>>]
            /\ UNCHANGED failed
       ELSE /\ failed' = "todo"
            /\ result' = NoResult
    /\ ClearLog
    /\ UNCHANGED <<graph, connects, op, pc, locals, wrapped>>

----------------------------------------------------------------------------
\* The caller.  It creates the nodes 1..MaxNodes, each with a payload, and adds
\* them to the graph one at a time in the order of their ids (the order of the
\* collection is not read by any operation: topo_sort moves it into a HashMap);
\* a node not added is one that edges can still name.  Edges are added one at
\* a time between any two created nodes, the two the same included.  Nodes and
\* edges are added before the first connect(); topo_sort, emit and
\* reduce_block_outputs are called after it; try_split is called at any time.

KindTables ==
    { [n \in Nodes |-> IF n = 1 THEN "Op" ELSE IF n = 2 THEN "Other" ELSE "Block"],
      [n \in Nodes |-> IF n = 2 THEN "Op" ELSE "Block"] }

OutputLists ==
    {l \in UNION {[1..k -> 1..MaxOutputs] : k \in 0..MaxOutputs} :
        \A i, j \in 1..Len(l) : i /= j => l[i] /= l[j]}

ReduceOutcomes == {None} \cup {Some(l) : l \in OutputLists}

Blocks == {n \in Range(nodes) : node[n].inner = "Block"}

Init ==
    /\ nodes = <<>>
    /\ edges = <<>>
    /\ node \in {[n \in Nodes |-> NewNode(kt[n])] : kt \in KindTables}
    /\ connects = 0
    /\ op = "none"
    /\ pc = "idle"
    /\ in_degrees = EmptyMap
    /\ node_ids = {}
    /\ sorted_nodes = <<>>
    /\ passes = 0
    /\ snapshot = {}
    /\ dropped = {}
    /\ result = NoResult
    /\ order = <<>>
    /\ fails = {}
    /\ outs = EmptyMap
    /\ invoked = <<>>
    /\ wrapped = FALSE
    /\ failed = "none"

Next ==
    \/ connects = 0 /\ Len(nodes) < MaxNodes /\ add_nodes(<<Len(nodes) + 1>>)
    \/ connects = 0 /\ Len(edges) < MaxEdges
         /\ \E src, dst \in Nodes : add_edges(<<<<src, dst>>>>)
    \/ connect
    \/ connects >= 1
         /\ \E o \in {"topo_sort", "emit", "reduce_block_outputs"} : Call(o)
    \/ \E node_id \in Nodes, checked \in BOOLEAN : Visit(node_id, checked)
    \/ topo_sort_return
    \/ \E failing \in SUBSET Range(nodes) : emit_loop(failing)
    \/ \E yields \in [Blocks -> ReduceOutcomes] : reduce_loop(yields)
    \/ \E ngroups \in 0..MaxGroups : try_split(ngroups)

Spec == Init /\ [][Next]_vars

----------------------------------------------------------------------------
\* Vocabulary of the properties.

Members == Range(nodes)

EdgeSet == {<<get_src(edges[i]), get_dst(edges[i])>> : i \in 1..Len(edges)}

\* Every edge has both endpoints in the node collection.
WellFormed == \A e \in EdgeSet : e[1] \in Members /\ e[2] \in Members

\* Some non-empty set of nodes of S in which every node has a predecessor in
\* the set: a directed cycle (a self-loop included) among the nodes of S.
CycleIn(S) ==
    \E C \in SUBSET S : C /= {} /\ \A v \in C : \E u \in C : <<u, v>> \in EdgeSet

Acyclic == ~CycleIn(Nodes)

InEdges(x) == {i \in 1..Len(edges) : get_dst(edges[i]) = x}
OutEdges(x) == {i \in 1..Len(edges) : get_src(edges[i]) = x}

\* connect() has returned k times, and never panicked.
Connected(k) == connects = k /\ failed /= "BorrowMutError"

Running == op /= "none"

\* s holds every node of the graph exactly once, sources before destinations.
IsTopoOrder(s) ==
    /\ Len(s) = Cardinality(Members)
    /\ Range(s) = Members
    /\ \A e \in EdgeSet : Pos(s, e[1]) < Pos(s, e[2])

IsDiamond(a, b, c) ==
    /\ Cardinality({a, b, c}) = 3
    /\ Members = {a, b, c}
    /\ Len(edges) = 3
    /\ EdgeSet = {<<a, b>>, <<a, c>>, <<b, c>>}

Emits(n) == node[n].inner \in {"Op", "Block"}

\* The nodes of the returned order whose payload is an Op or a Block.
Emitting == SelectSeq(order, Emits)

InvokedNodes == [i \in 1..Len(invoked) |-> invoked[i].node]

----------------------------------------------------------------------------
\* C1: on an acyclic graph whose edges all have both endpoints in the node
\* collection and that was connected exactly once, topo_sort does not fail,
\* takes no more passes than the graph has nodes, and returns a sequence
\* holding every node of the graph exactly once in which the source of every
\* edge comes before its destination; for the diamond a->b, a->c, b->c it
\* returns exactly <<a, b, c>>.
C1_TopoSortOrder ==
    (Connected(1) /\ WellFormed /\ Acyclic) =>
        /\ Running => (failed = "none" /\ passes <= Cardinality(Members))
        /\ result.op = "topo_sort" =>
            /\ IsTopoOrder(result.value)
            /\ \A a, b, c \in Nodes :
                 IsDiamond(a, b, c) => result.value = <<a, b, c>>

C1_Witness ==
    /\ Connected(1)
    /\ result.op = "topo_sort"
    /\ \E a, b, c \in Nodes : IsDiamond(a, b, c) /\ result.value = <<a, b, c>>

\* C2: after a single connect() that returned, the out-edge counts of all
\* nodes sum to the number of edges and so do their in-degree counters, and for
\* every node x the in-degree counter equals the number of edges into x; when
\* the edges all have both endpoints in the node collection, the two sums
\* taken over the node collection alone equal the number of edges as well.
OutDegrees == [x \in Nodes |-> Len(node[x].out_edges)]
InDegrees == [x \in Nodes |-> node[x].in_degrees]

C2_ConnectDegrees ==
    Connected(1) =>
        /\ SumOver(OutDegrees, Nodes) = Len(edges)
        /\ SumOver(InDegrees, Nodes) = Len(edges)
        /\ \A x \in Nodes : node[x].in_degrees = Cardinality(InEdges(x))
        /\ WellFormed =>
            /\ SumOver(OutDegrees, Members) = Len(edges)
            /\ SumOver(InDegrees, Members) = Len(edges)

C2_Witness ==
    /\ Connected(1)
    /\ WellFormed
    /\ Len(edges) = MaxEdges
    /\ \E x \in Members : node[x].in_degrees = 2

\* C3: when the own emission of every Op and Block node succeeds, emit returns
\* Ok with the concatenation of their fragments in the order topo_sort
\* returned, each of them invoked exactly once in that order; a node with
\* another payload is not invoked and contributes nothing.
C3_EmitConcat ==
    (result.op = "emit" /\ Range(Emitting) \cap fails = {}) =>
        /\ result.tag = "Ok"
        /\ result.value = Concat([i \in 1..Len(Emitting) |-> Fragment(Emitting[i])])
        /\ InvokedNodes = Emitting
        /\ \A n \in Members :
             Count(result.value, n) = IF Emits(n) THEN 1 ELSE 0

C3_Witness ==
    /\ result.op = "emit" /\ result.tag = "Ok"
    /\ Len(result.value) = 2
    /\ Len(order) = 3
    /\ \E n \in Members : ~Emits(n) /\ Pos(order, n) = 2

\* C4: when the own emission of some Op or Block node fails, emit returns Err
\* with exactly the error of the first failing node of the order, has invoked
\* the emitting nodes up to that one and none after it, and returns no code.
C4_EmitFailFast ==
    (result.op = "emit" /\ Range(Emitting) \cap fails /= {}) =>
        LET k == CHOOSE i \in 1..Len(Emitting) :
                    /\ Emitting[i] \in fails
                    /\ \A j \in 1..(i - 1) : Emitting[j] \notin fails
        IN  /\ result.tag = "Err"
            /\ result.value = EmitError(Emitting[k])
            /\ InvokedNodes = SubSeq(Emitting, 1, k)
            /\ invoked[k].tag = "Err"
            /\ \A j \in 1..(k - 1) : invoked[j].tag = "Ok"

C4_Witness ==
    /\ result.op = "emit" /\ result.tag = "Err"
    /\ Len(Emitting) = 3
    /\ Cardinality(fails) = 2
    /\ Len(invoked) = 2

\* C5: with exactly two edges, both a->b, connect() leaves in-degree(b) = 2
\* with a as the only distinct predecessor; topo_sort does not fail, needs no
\* more passes than the graph has nodes, takes b's working in-degree from 2 to
\* 0 when it harvests a, and returns an order holding b exactly once, after a.
C5_MultiEdge ==
    \A a, b \in Members :
        (Connected(1) /\ a /= b /\ edges = <<<<a, b>>, <<a, b>>>>) =>
            /\ node[b].in_degrees = 2
            /\ Range(node[b].prevs) = {a}
            /\ Running =>
                /\ failed = "none"
                /\ passes <= Cardinality(Members)
                /\ b \in DOMAIN in_degrees =>
                     in_degrees[b] = IF a \in Range(sorted_nodes) THEN 0 ELSE 2
            /\ result.op = "topo_sort" =>
                /\ Count(result.value, a) = 1
                /\ Count(result.value, b) = 1
                /\ Pos(result.value, a) < Pos(result.value, b)

C5_Witness ==
    /\ Connected(1)
    /\ \E a, b \in Members : a /= b /\ edges = <<<<a, b>>, <<a, b>>>>
                              /\ result.op = "topo_sort"
                              /\ Count(result.value, b) = 1

\* C6: no step of topo_sort, emit or reduce_block_outputs changes the node
\* collection, the edge collection, or any node's in-degree counter or
\* adjacency lists: the traversal works on the transient mapping only.
C6_SchedulingFrame ==
    [][(op /= "none" \/ op' /= "none") => UNCHANGED <<nodes, edges, node>>]_vars

C6_Witness ==
    /\ Connected(1)
    /\ result.op = "reduce_block_outputs"
    /\ Len(order) = 3
    /\ \E x \in Members : node[x].in_degrees = 2

\* C7: reduce_block_outputs returns none for a graph without a Block node; for
\* a graph with exactly one Block node whose reduction yields a non-empty list
\* it returns that list, same elements in the same order.
C7_ReduceBlockOutputs ==
    result.op = "reduce_block_outputs" =>
        /\ Blocks = {} => result.tag = "None"
        /\ \A b \in Blocks :
             (Blocks = {b} /\ outs[b].some /\ outs[b].list /= <<>>) =>
                 /\ result.tag = "Some"
                 /\ result.value = outs[b].list

C7_Witness ==
    /\ result.op = "reduce_block_outputs" /\ result.tag = "Some"
    /\ Cardinality(Blocks) = 1
    /\ Len(result.value) = 2
    /\ result.value[1] > result.value[2]

C7_WitnessNoBlock ==
    /\ result.op = "reduce_block_outputs"
    /\ Blocks = {} /\ Len(nodes) = 2

\* C8, as stated: after two connect() calls every in-degree counter is twice
\* the number of incoming edges, the adjacency lists are duplicated, and a
\* following topo_sort does not return a valid topological order.
Doubled(l) == l \o l

\* The positions of the edges out of x and into x, in insertion order, and
\* the destinations and sources they name.
Positions(Keep(_)) == SelectSeq([i \in 1..Len(edges) |-> i], Keep)
OutSeq(x) == LET Keep(i) == get_src(edges[i]) = x IN Positions(Keep)
InSeq(x) == LET Keep(i) == get_dst(edges[i]) = x IN Positions(Keep)
DstOf(l) == [k \in 1..Len(l) |-> get_dst(edges[l[k]])]
SrcOf(l) == [k \in 1..Len(l) |-> get_src(edges[l[k]])]

DoubleConnected ==
    \A x \in Nodes :
        /\ node[x].in_degrees = 2 * Cardinality(InEdges(x))
        /\ node[x].out_edges = Doubled(OutSeq(x))
        /\ node[x].in_edges = Doubled(InSeq(x))
        /\ node[x].nexts = Doubled(DstOf(OutSeq(x)))
        /\ node[x].prevs = Doubled(SrcOf(InSeq(x)))

C9_CycleNeverTerminates ==
    (connects >= 1 /\ CycleIn(Members) /\ Running) =>
        /\ pc = "for"
        /\ DOMAIN in_degrees /= {}
        /\ result = NoResult
        /\ WellFormed => (failed = "none" /\ node_ids /= {})

C9_Witness ==
    /\ connects = 1 /\ Running
    /\ \E a, b \in Members : a /= b /\ edges = <<<<a, b>>, <<b, a>>>>
    /\ passes > Cardinality(Members)

\* C10: try_split called with exactly one loop group returns none, does not
\* fail, and leaves the graph's nodes, edges and in-degrees unchanged.
C10_TrySplitOneGroup ==
    [][try_split(1) =>
         /\ result' = [op |-> "try_split", tag |-> "None", value |-> <<>>]
         /\ failed' = "none"
         /\ UNCHANGED <<nodes, edges, node>>]_vars

C10_Witness ==
    /\ result.op = "try_split" /\ result.tag = "None"
    /\ failed = "none"
    /\ Connected(1) /\ Len(edges) = MaxEdges /\ Len(nodes) = MaxNodes

----------------------------------------------------------------------------
\* The id n is the one the step visits: it was still to be visited and the
\* step takes it off the snapshot (the last one ends the pass).
Visits(n) ==
    /\ pc = "for" /\ n \in node_ids
    /\ node_ids' = node_ids \ {n} \/ node_ids = {n}

Appends(n) == n \notin Range(sorted_nodes) /\ n \in Range(sorted_nodes')

\* C11, as stated: a node whose working in-degree dropped to zero during a
\* pass is not appended to the result within that same pass.
C11_Original ==
    [][\A n \in dropped : ~(pc = "for" /\ Appends(n))]_vars

\* C11, amended: the loop reads the live mapping, so a node whose working
\* in-degree dropped to zero during a pass is appended within that same pass
\* when the pass visits it after the drop; only a node the pass had already
\* visited before the drop stays in the mapping, with in-degree zero, and is
\* appended in a subsequent pass.
C11_LiveInDegree ==
    [][\A n \in dropped :
         /\ Visits(n) => Appends(n)
         /\ (pc = "for" /\ n \notin node_ids /\ n \notin Range(sorted_nodes)) =>
              (n \in DOMAIN in_degrees /\ in_degrees[n] = 0 /\ ~Appends(n))]_vars

\* A node that dropped to zero in the pass and was appended in the same pass.
C11_Witness ==
    /\ Connected(1) /\ WellFormed /\ Acyclic
    /\ Running /\ pc = "for" /\ failed = "none"
    /\ \E n \in dropped : n \in Range(sorted_nodes)

\* A node that dropped to zero after its visit and waits for the next pass.
C11_WitnessDeferred ==
    /\ Connected(1) /\ WellFormed /\ Acyclic
    /\ Running /\ pc = "for" /\ failed = "none"
    /\ \E n \in dropped : n \notin node_ids /\ n \in DOMAIN in_degrees

----------------------------------------------------------------------------
\* The Block nodes of the returned order, and the one that comes first.
OrderedBlocks == {b \in Range(order) : node[b].inner = "Block"}
IsFirstBlock(b) ==
    b \in OrderedBlocks /\ \A c \in OrderedBlocks : Pos(order, b) <= Pos(order, c)

\* C12: reduce_block_outputs consults only the first Block node of the
\* topological order: the reduction of that block is the only one invoked,
\* the function returns a list exactly when that reduction yields one and
\* none when it yields none, and no later Block node's reduction is invoked.
C12_FirstBlockOnly ==
    result.op = "reduce_block_outputs" =>
        /\ OrderedBlocks = {} => invoked = <<>>
        /\ \A b \in OrderedBlocks :
             IsFirstBlock(b) =>
                 /\ InvokedNodes = <<b>>
                 /\ invoked[1].tag = (IF outs[b].some THEN "Some" ELSE "None")
                 /\ result.tag = invoked[1].tag
                 /\ result.value = outs[b].list
                 /\ \A c \in OrderedBlocks \ {b} : c \notin Range(InvokedNodes)

\* Two Block nodes in the order; the first yields none, the later one would
\* yield a list, and the function returned none.
C12_Witness ==
    /\ result.op = "reduce_block_outputs" /\ result.tag = "None"
    /\ \E b, c \in OrderedBlocks :
         /\ b /= c /\ IsFirstBlock(b)
         /\ ~outs[b].some
         /\ outs[c].some /\ outs[c].list /= <<>>

\* Two Block nodes in the order; the first yields a list, which is returned.
C12_WitnessSome ==
    /\ result.op = "reduce_block_outputs" /\ result.tag = "Some"
    /\ \E b, c \in OrderedBlocks :
         /\ b /= c /\ IsFirstBlock(b)
         /\ outs[b].some /\ outs[c].some /\ outs[b].list /= outs[c].list

----------------------------------------------------------------------------
\* C13: after connect() has run exactly once, for every node x the successor
\* collection of x holds exactly the destinations of x's out-edges and the
\* predecessor collection of x holds exactly the sources of x's in-edges,
\* entry for entry, the out-edge and in-edge lists of x being the graph's
\* edges out of and into x in insertion order; and the in-degree counter of x
\* equals the length of x's in-edge list.
C13_AdjacencyMirrorsEdges ==
    Connected(1) =>
        \A x \in Nodes :
            /\ node[x].out_edges = OutSeq(x)
            /\ node[x].in_edges = InSeq(x)
            /\ node[x].nexts = DstOf(node[x].out_edges)
            /\ node[x].prevs = SrcOf(node[x].in_edges)
            /\ node[x].in_degrees = Len(node[x].in_edges)

\* A connected graph with a node of two different successors and a node of
\* two different predecessors.
C13_Witness ==
    /\ Connected(1) /\ Len(edges) = MaxEdges
    /\ \E x \in Nodes : Len(node[x].nexts) = 2 /\ node[x].nexts[1] /= node[x].nexts[2]
    /\ \E y \in Nodes : Len(node[y].prevs) = 2 /\ node[y].prevs[1] /= node[y].prevs[2]
                        /\ node[y].in_degrees = 2

----------------------------------------------------------------------------
\* The nodes of the collection that lie on a directed cycle or downstream of
\* one: the largest set in which every node has a predecessor in the set.
Blocked ==
    UNION {C \in SUBSET Members : \A v \in C : \E u \in C : <<u, v>> \in EdgeSet}

\* C14, as stated: in a graph that contains a cycle, no node ever reaches
\* zero in-degree during topo_sort, so no node is ever appended to the result.
C14_Original ==
    (Connected(1) /\ WellFormed /\ CycleIn(Members) /\ Running) =>
        /\ \A n \in DOMAIN in_degrees : in_degrees[n] > 0
        /\ sorted_nodes = <<>>

\* C14, amended: in a graph that contains a cycle, no node that lies on a
\* cycle or downstream of one ever reaches zero working in-degree during
\* topo_sort, so none of these is ever appended to the result and the mapping
\* never empties; a node that is not downstream of a cycle can still reach
\* zero and be appended.
C14_CycleNodesNeverHarvested ==
    (connects >= 1 /\ Running) =>
        \A n \in Blocked :
            /\ n \in DOMAIN in_degrees
            /\ in_degrees[n] > 0
            /\ n \notin Range(sorted_nodes)

\* A cycle fed by a node outside it: that node was appended and its
\* successor on the cycle was decremented, yet stays positive, pass after
\* pass.
C14_Witness ==
    /\ Connected(1) /\ WellFormed /\ CycleIn(Members) /\ Running
    /\ sorted_nodes /= <<>>
    /\ passes > 1
    /\ \E n \in Blocked : in_degrees[n] < node[n].in_degrees

----------------------------------------------------------------------------
NoSelfLoop == \A e \in EdgeSet : e[1] /= e[2]

\* The positions of the edges with an endpoint outside the node collection.
Dangling ==
    {i \in 1..Len(edges) :
        get_src(edges[i]) \notin Members \/ get_dst(edges[i]) \notin Members}

C15_WitnessSilent ==
    /\ connects = 1 /\ NoSelfLoop /\ failed = "none"
    /\ \E i \in Dangling : get_src(edges[i]) \notin Members
                           /\ get_dst(edges[i]) \in Members
    /\ Running /\ passes > Cardinality(Members)

----------------------------------------------------------------------------
\* The edges into v whose source is still in the working mapping.
PendingInto(v) == {i \in InEdges(v) : get_src(edges[i]) \in DOMAIN in_degrees}

\* C16: on a graph whose edge endpoints are all members and on which
\* connect() ran exactly once, topo_sort never fails: every id still to be
\* visited in the pass is still in the working mapping, every successor of a
\* node of the mapping is in the mapping with a working in-degree that covers
\* the decrements that node will make (the working in-degree of a node is the
\* number of its in-edges from nodes not yet harvested), and no counter has
\* wrapped around.
C16_TopoSortNeverFails ==
    (Connected(1) /\ WellFormed /\ Running) =>
        /\ failed = "none"
        /\ ~wrapped
        /\ pc = "for" => node_ids \subseteq DOMAIN in_degrees
        /\ \A v \in DOMAIN in_degrees :
             in_degrees[v] = Cardinality(PendingInto(v))
        /\ \A u \in DOMAIN in_degrees :
             \A v \in Range(node[u].nexts) :
                 /\ v \in DOMAIN in_degrees
                 /\ in_degrees[v] >= Count(node[u].nexts, v)

\* A sort in progress that has harvested a node with two edges into one
\* successor and has brought that successor's working in-degree down to zero.
C16_Witness ==
    /\ Connected(1) /\ WellFormed /\ Running /\ pc = "for"
    /\ \E u \in Range(sorted_nodes), v \in DOMAIN in_degrees :
         /\ Count(node[u].nexts, v) = 2
         /\ node[v].in_degrees = 3
         /\ in_degrees[v] = 1

----------------------------------------------------------------------------
\* The ids the current pass has removed from the working mapping so far.
RemovedInPass == snapshot \ DOMAIN in_degrees

\* C17: on an acyclic graph with n nodes whose edge endpoints are all members
\* and on which connect() ran exactly once, every pass of topo_sort's outer
\* loop removes at least one id from the working mapping (at any point of a
\* pass an id has been removed already or an id still to be visited has
\* working in-degree zero), so after p passes begun at most n - (p - 1) ids
\* are left, at most n passes are made, and the loop ends with an empty
\* mapping and all n nodes in the result.
C17_PassesBounded ==
    (Connected(1) /\ WellFormed /\ Acyclic /\ Running) =>
        /\ failed = "none"
        /\ passes <= Cardinality(Members)
        /\ pc = "for" =>
             /\ RemovedInPass /= {} \/ \E id \in node_ids : in_degrees[id] = 0
             /\ Cardinality(snapshot) <= Cardinality(Members) - (passes - 1)
        /\ pc = "sorted" =>
             /\ DOMAIN in_degrees = {}
             /\ Len(sorted_nodes) = Cardinality(Members)

\* A chain of three nodes sorted in exactly three passes, one id each.
C17_Witness ==
    /\ Connected(1) /\ WellFormed /\ Acyclic /\ Running
    /\ pc = "sorted"
    /\ Cardinality(Members) = MaxNodes
    /\ passes = Cardinality(Members)

----------------------------------------------------------------------------
\* Edges from a member to a node outside the collection, and the reverse.
OutOfCollection ==
    {i \in 1..Len(edges) :
        get_src(edges[i]) \in Members /\ get_dst(edges[i]) \notin Members}
IntoCollection ==
    {i \in 1..Len(edges) :
        get_src(edges[i]) \notin Members /\ get_dst(edges[i]) \in Members}

Last(s) == s[Len(s)]

\* C18, as stated: with an edge u->v, u a member and v not, topo_sort aborts
\* when it harvests u; with u not a member and v a member, v's working
\* in-degree never reaches zero and topo_sort never terminates (it stays in
\* its loop and does not abort).
C18_Original ==
    (Connected(1) /\ Running) =>
        /\ \A i \in OutOfCollection :
             get_src(edges[i]) \in Range(sorted_nodes) => failed = "unwrap"
        /\ \A i \in IntoCollection :
             /\ in_degrees[get_dst(edges[i])] > 0
             /\ pc = "for" /\ failed = "none"

\* C18, amended: with an edge u->v, u a member and v not, topo_sort aborts
\* in the very iteration that harvests u: u is the last id appended and is
\* still in the mapping.  With u not a member and v a member, v's working
\* in-degree never reaches zero, v is never appended and topo_sort never
\* returns; it loops for ever unless an edge of the first kind aborts it,
\* and it does loop for ever when there is no edge of the first kind.
C18_DanglingEdgeOutcome ==
    (Connected(1) /\ Running) =>
        /\ \A i \in OutOfCollection :
             LET u == get_src(edges[i])
             IN  u \in Range(sorted_nodes) =>
                     /\ failed = "unwrap"
                     /\ Last(sorted_nodes) = u
                     /\ u \in DOMAIN in_degrees
        /\ \A i \in IntoCollection :
             LET v == get_dst(edges[i])
             IN  /\ v \in DOMAIN in_degrees
                 /\ in_degrees[v] > 0
                 /\ v \notin Range(sorted_nodes)
                 /\ pc = "for"
                 /\ failed \in {"none", "unwrap"}
                 /\ OutOfCollection = {} => (failed = "none" /\ node_ids /= {})

\* The sort harvested a node, then a member with a successor outside the
\* collection, and aborted there.
C18_Witness ==
    /\ Connected(1) /\ Running /\ failed = "unwrap"
    /\ Len(sorted_nodes) = 2
    /\ \E i \in OutOfCollection : Last(sorted_nodes) = get_src(edges[i])

\* The sort harvested a node and keeps sweeping a member whose predecessor
\* is outside the collection.
C18_WitnessLoop ==
    /\ Connected(1) /\ Running /\ failed = "none"
    /\ IntoCollection /= {} /\ OutOfCollection = {}
    /\ sorted_nodes /= <<>>
    /\ passes > Cardinality(Members)

----------------------------------------------------------------------------
\* The position of the first self-loop edge (Len(edges) + 1 when none).
FirstSelfLoop ==
    LET loops == {i \in 1..Len(edges) : get_src(edges[i]) = get_dst(edges[i])}
    IN  IF loops = {} THEN Len(edges) + 1
        ELSE CHOOSE k \in loops : \A j \in loops : k <= j

Before(l, k) == LET Keep(i) == i < k IN SelectSeq(l, Keep)

\* C19: connect() on a graph with a self-loop edge aborts with a run-time
\* failure at the second exclusive borrow of that edge's node, before the
\* edge changes any adjacency list or in-degree: the nodes hold exactly the
\* edges inserted before the first self-loop, which were applied, and
\* nothing of that edge or of the edges after it.
C19_SelfLoopAborts ==
    (connects >= 1 /\ ~NoSelfLoop) =>
        /\ connects = 1
        /\ failed = "BorrowMutError"
        /\ \A x \in Nodes :
             /\ node[x].out_edges = Before(OutSeq(x), FirstSelfLoop)
             /\ node[x].in_edges = Before(InSeq(x), FirstSelfLoop)
             /\ node[x].nexts = DstOf(node[x].out_edges)
             /\ node[x].prevs = SrcOf(node[x].in_edges)
             /\ node[x].in_degrees = Len(node[x].in_edges)

\* connect() aborted on a self-loop in second position: the edge before it
\* was applied, the edge after it was not.
C19_Witness ==
    /\ connects = 1 /\ failed = "BorrowMutError"
    /\ FirstSelfLoop = 2 /\ Len(edges) = 3
    /\ get_src(edges[3]) /= get_dst(edges[3])
    /\ node[get_dst(edges[1])].in_degrees = 1
    /\ node[get_src(edges[3])].out_edges = Before(OutSeq(get_src(edges[3])), 2)
    /\ node[get_dst(edges[3])].in_degrees < Cardinality(InEdges(get_dst(edges[3])))

====
